---- MODULE Spec2Model ----
(***************************************************************************)
(* Attribute validation (validate-attributes) and hierarchical facet       *)
(* detection (detect-hierarchical-facets) of algolia/generative-relevance. *)
(*                                                                         *)
(* Strings are sequences of one-character strings, so that the regular     *)
(* expression of getBaseAttribute, split(','), the template literal        *)
(* `${key}.${subKey}` and includes(' > ') are computed on characters.      *)
(* JSON values are records [type, str, items, props]; an object's props    *)
(* is the sequence Object.entries yields, each entry a [key, value].       *)
(***************************************************************************)
EXTENDS Integers, Sequences, FiniteSets, TLC

VARIABLES
    revision,           \* which revision of validate-attributes is built
    suggested,          \* the suggestion list the caller received
    attributes,         \* argument `attributes` of the latest call
    records,            \* argument `records` (the sample records)
    validAttributes,    \* return value of the latest validateAttributes call
    hierarchicalFacets, \* return value of detectHierarchicalFacets
    pc,                 \* position of the caller
    generator,          \* which generator produced config and reasoning
    limit,              \* argument `limit` of the generator
    prompt,             \* the records written into the prompt for the LLM
    config,             \* the configuration value a generator returns
    reasoning,          \* the reasoning a generator returns, by sentences
    sections,           \* argument `sections` of promptApplyConfiguration
    prompts,            \* proceedWithAny, the preview shown, confirmApply
    sectionsToApply,    \* the indexes the user ticked
    sectionCursor,      \* position of the loop over sectionsToApply
    indexReplicas,      \* the `replicas` setting of the main index
    writes,             \* the setSettings calls issued so far, in order
    step,               \* position of promptApplyConfiguration
    options,            \* the --searchable, --ranking, --faceting, --sortable flags given
    models,             \* the model of each generateConfigurations call in flight
    promises,           \* per call, the state of each entry handed to Promise.all
    configurations,     \* per call, what generateConfigurations returned
    costs,              \* the module-level `costs` of costs-tracker.ts
    usageCalls          \* the arguments of the addCliUsage calls made so far

generatorVars == <<generator, limit, prompt, config, reasoning>>

applyVars == <<sections, prompts, sectionsToApply, sectionCursor,
               indexReplicas, writes, step>>

configureVars == <<options, models, promises, configurations, costs,
                   usageCalls>>

vars == <<revision, suggested, attributes, records, validAttributes,
          hierarchicalFacets, pc, generatorVars, applyVars, configureVars>>

(***************************************************************************)
(* Bounds                                                                  *)
(***************************************************************************)
MaxAttributes == 2

MaxRecords == 2

(***************************************************************************)
(* Strings                                                                 *)
(***************************************************************************)
Range(s) == {s[i] : i \in 1..Len(s)}

SeqsUpTo(S, n) == UNION {[1..k -> S] : k \in 0..n}

\* `${x}.${y}`
Dot(x, y) == x \o <<".">> \o y

Comma(x, y) == x \o <<",">> \o y

Wrap(m, x) == m \o <<"(">> \o x \o <<")">>

\* String.prototype.includes
includes(s, sub) ==
    \E i \in 1..(Len(s) - Len(sub) + 1) : SubSeq(s, i, i + Len(sub) - 1) = sub

\* String.prototype.split(',')
RECURSIVE split(_)
split(s) ==
    IF \A i \in 1..Len(s) : s[i] # ","
    THEN <<s>>
    ELSE LET i == CHOOSE k \in 1..Len(s) :
                      s[k] = "," /\ \A j \in 1..(k - 1) : s[j] # ","
         IN  <<SubSeq(s, 1, i - 1)>> \o split(SubSeq(s, i + 1, Len(s)))

(***************************************************************************)
(* JSON values                                                             *)
(***************************************************************************)
Scalar(t) == [type |-> t, str |-> <<>>, items |-> <<>>, props |-> <<>>]

Null == Scalar("null")

Undefined == Scalar("undefined")

Num == Scalar("number")

Bool == Scalar("boolean")

Str(s) == [type |-> "string", str |-> s, items |-> <<>>, props |-> <<>>]

Arr(xs) == [type |-> "array", str |-> <<>>, items |-> xs, props |-> <<>>]

Obj(ps) == [type |-> "object", str |-> <<>>, items |-> <<>>, props |-> ps]

Entry(k, v) == [key |-> k, value |-> v]

\* value && typeof value === 'object' && !Array.isArray(value)
\* (typeof null is 'object', but null is falsy)
isPlainObject(value) ==
    /\ value.type \notin {"null", "undefined"}
    /\ value.type \in {"object", "array", "null"}
    /\ value.type # "array"

(***************************************************************************)
(* validate-attributes                                                     *)
(***************************************************************************)
asc == <<"a", "s", "c">>

desc == <<"d", "e", "s", "c">>

ordered == <<"o", "r", "d", "e", "r", "e", "d">>

unordered == <<"u", "n">> \o ordered

searchable == <<"s", "e", "a", "r", "c", "h", "a", "b", "l", "e">>

filterOnly == <<"f", "i", "l", "t", "e", "r", "O", "n", "l", "y">>

Modifiers == {asc, desc, ordered, unordered, searchable, filterOnly}

\* characters that `.` does not match
LineTerminators == {"\n", "\r"}

\* /^(?:asc|desc|ordered|unordered|searchable|filterOnly)\((.+)\)$/ with
\* wrapper name m
matchesModifier(attribute, m) ==
    /\ Len(attribute) >= Len(m) + 3
    /\ SubSeq(attribute, 1, Len(m)) = m
    /\ attribute[Len(m) + 1] = "("
    /\ attribute[Len(attribute)] = ")"
    /\ \A i \in (Len(m) + 2)..(Len(attribute) - 1) :
           attribute[i] \notin LineTerminators

\* a mis-parse that takes any name followed by a parenthesis for a wrapper
getBaseAttributeAnyWrapper(attribute) ==
    IF /\ attribute # <<>>
       /\ attribute[Len(attribute)] = ")"
       /\ \E k \in 2..(Len(attribute) - 2) : attribute[k] = "("
    THEN LET k == CHOOSE j \in 2..(Len(attribute) - 2) :
                      attribute[j] = "(" /\ \A h \in 2..(j - 1) : attribute[h] # "("
         IN  SubSeq(attribute, k + 1, Len(attribute) - 1)
    ELSE attribute

getBaseAttribute(attribute) ==
    IF \E m \in Modifiers : matchesModifier(attribute, m)
    THEN LET m == CHOOSE n \in Modifiers : matchesModifier(attribute, n)
         IN  SubSeq(attribute, Len(m) + 2, Len(attribute) - 1)
    ELSE attribute

\* Object.entries(value).forEach(([subKey]) => add(`${key}.${subKey}`))
RECURSIVE addSubKeys(_, _, _)
addSubKeys(names, key, entries) ==
    IF entries = <<>>
    THEN names
    ELSE addSubKeys(names \cup {Dot(key, Head(entries).key)}, key, Tail(entries))

\* Object.entries(record).forEach(([key, value]) => ...)
RECURSIVE addEntries(_, _)
addEntries(names, entries) ==
    IF entries = <<>>
    THEN names
    ELSE LET key == Head(entries).key
             value == Head(entries).value
             withKey == names \cup {key}
         IN  addEntries(IF isPlainObject(value)
                        THEN addSubKeys(withKey, key, value.props)
                        ELSE withKey,
                        Tail(entries))

\* records.forEach((record) => ...)
RECURSIVE addRecords(_, _)
addRecords(names, recs) ==
    IF recs = <<>>
    THEN names
    ELSE addRecords(addEntries(names, Head(recs)), Tail(recs))

\* the first revision's key set: top-level keys only
allAttributeNamesTopLevel(recs) ==
    UNION {{recs[i][j].key : j \in 1..Len(recs[i])} : i \in 1..Len(recs)}

\* a key set rebuilt for every record: only the last record's keys remain
allAttributeNamesLastRecord(recs) ==
    IF recs = <<>> THEN {} ELSE addRecords({}, <<recs[Len(recs)]>>)

\* const allAttributeNames = new Set<string>(); records.forEach(...)
allAttributeNames(recs) == addRecords({}, recs)

\* a guard that fails open: with no records every suggestion is kept
validateAttributesKeepAll(attrs, recs) ==
    IF Len(recs) = 0
    THEN attrs
    ELSE LET names == allAttributeNames(recs)
         IN  SelectSeq(attrs,
                 LAMBDA attribute :
                     \A x \in Range(split(getBaseAttribute(attribute))) :
                         x \in names)

\* attributes.filter((attribute) =>
\*     getBaseAttribute(attribute).split(',').every((x) => names.has(x)))
validateAttributesFilter(attrs, recs) ==
    IF Len(recs) = 0
    THEN <<>>
    ELSE LET names == allAttributeNames(recs)
         IN  SelectSeq(attrs,
                 LAMBDA attribute :
                     \A x \in Range(split(getBaseAttribute(attribute))) :
                         x \in names)

\* attributes.flatMap((attribute) => getBaseAttribute(attribute).split(','))
RECURSIVE flatMapSplit(_)
flatMapSplit(attrs) ==
    IF attrs = <<>>
    THEN <<>>
    ELSE split(getBaseAttribute(Head(attrs))) \o flatMapSplit(Tail(attrs))

\* attributes.flatMap(...).filter((attribute) => names.has(attribute))
validateAttributesFlatMap(attrs, recs) ==
    IF Len(recs) = 0
    THEN <<>>
    ELSE LET names == allAttributeNames(recs)
         IN  SelectSeq(flatMapSplit(attrs),
                 LAMBDA attribute : attribute \in names)

\* the revision of validate-attributes the build carries
validateAttributes(rev, attrs, recs) ==
    IF rev = "filter"
    THEN validateAttributesFilter(attrs, recs)
    ELSE validateAttributesFlatMap(attrs, recs)

(***************************************************************************)
(* detect-hierarchical-facets                                              *)
(***************************************************************************)
chevron == <<" ", ">", " ">>

\* a marker test that forgets the surrounding spaces
hasHierarchicalValuesBareChevron(obj) ==
    \E j \in 1..Len(obj.props) :
        LET val == obj.props[j].value
        IN  IF val.type = "string"
            THEN includes(val.str, <<">">>)
            ELSE IF val.type = "array"
                 THEN \E i \in 1..Len(val.items) :
                          /\ val.items[i].type = "string"
                          /\ includes(val.items[i].str, <<">">>)
                 ELSE FALSE

\* a marker test that looks at string properties only
hasHierarchicalValuesStringsOnly(obj) ==
    \E j \in 1..Len(obj.props) :
        LET val == obj.props[j].value
        IN  val.type = "string" /\ includes(val.str, chevron)

\* a marker test that asks every element of an array to carry the marker
hasHierarchicalValuesEvery(obj) ==
    \E j \in 1..Len(obj.props) :
        LET val == obj.props[j].value
        IN  IF val.type = "string"
            THEN includes(val.str, chevron)
            ELSE IF val.type = "array"
                 THEN \A i \in 1..Len(val.items) :
                          /\ val.items[i].type = "string"
                          /\ includes(val.items[i].str, chevron)
                 ELSE FALSE

\* a marker test that also looks into the objects nested in the object
hasHierarchicalValuesDeep(obj) ==
    \E j \in 1..Len(obj.props) :
        LET val == obj.props[j].value
        IN  IF val.type = "string"
            THEN includes(val.str, chevron)
            ELSE IF val.type = "array"
                 THEN \E i \in 1..Len(val.items) :
                          /\ val.items[i].type = "string"
                          /\ includes(val.items[i].str, chevron)
                 ELSE /\ val.type = "object"
                      /\ \E k \in 1..Len(val.props) :
                             /\ val.props[k].value.type = "string"
                             /\ includes(val.props[k].value.str, chevron)

\* Object.values(obj).some((val) => ...)
hasHierarchicalValues(obj) ==
    \E j \in 1..Len(obj.props) :
        LET val == obj.props[j].value
        IN  IF val.type = "string"
            THEN includes(val.str, chevron)
            ELSE IF val.type = "array"
                 THEN \E i \in 1..Len(val.items) :
                          /\ val.items[i].type = "string"
                          /\ includes(val.items[i].str, chevron)
                 ELSE FALSE

\* an array push where the code adds to a Set
setAddPush(s, x) == Append(s, x)

\* an unshift where the code adds to a Set
setAddFront(s, x) == IF x \in Range(s) THEN s ELSE <<x>> \o s

\* Set.prototype.add on an insertion-ordered set
setAdd(s, x) == IF x \in Range(s) THEN s ELSE Append(s, x)

\* a scan that forgets !Array.isArray(value): Object.values of an array
\* are its elements
RECURSIVE scanEntriesArraysToo(_, _)
scanEntriesArraysToo(facets, entries) ==
    IF entries = <<>>
    THEN facets
    ELSE LET key == Head(entries).key
             value == Head(entries).value
             obj == IF value.type = "array"
                    THEN Obj([i \in 1..Len(value.items) |->
                                  Entry(<<>>, value.items[i])])
                    ELSE value
         IN  scanEntriesArraysToo(
                 IF /\ value.type \in {"object", "array"}
                    /\ hasHierarchicalValues(obj)
                 THEN setAdd(facets, key)
                 ELSE facets,
                 Tail(entries))

\* for (const [key, value] of Object.entries(record))
RECURSIVE scanEntries(_, _)
scanEntries(facets, entries) ==
    IF entries = <<>>
    THEN facets
    ELSE LET key == Head(entries).key
             value == Head(entries).value
         IN  scanEntries(IF isPlainObject(value) /\ hasHierarchicalValues(value)
                         THEN setAdd(facets, key)
                         ELSE facets,
                         Tail(entries))

\* for (const record of records)
RECURSIVE scanRecords(_, _)
scanRecords(facets, recs) ==
    IF recs = <<>>
    THEN facets
    ELSE scanRecords(scanEntries(facets, Head(recs)), Tail(recs))

\* Array.from(hierarchicalFacets)
detectHierarchicalFacets(recs) == scanRecords(<<>>, recs)

(***************************************************************************)
(* Inputs                                                                  *)
(***************************************************************************)
sA == <<"a">>

sB == <<"b">>

sC == <<"c">>

foo == <<"f", "o", "o">>

\* what the suggestion source may return: bare, dotted, comma-joined and
\* wrapped names, a nested wrapper, an unknown wrapper, a missing closing
\* parenthesis, empty parentheses
SuggestionPool ==
    { sA,
      Dot(sA, sB),
      Dot(Dot(sA, sB), sC),
      Comma(sA, sB),
      Wrap(desc, sA),
      Wrap(unordered, Comma(sA, sB)),
      Wrap(asc, Wrap(desc, sA)),
      Wrap(foo, sA),
      filterOnly \o <<"(">> \o sA,
      Wrap(ordered, <<>>) }

\* records whose keys and nesting the validator reads
ValidatorRecords ==
    { <<Entry(sA, Num), Entry(sB, Null)>>,
      <<Entry(sA, Obj(<<Entry(sB, Obj(<<Entry(sC, Num)>>))>>))>>,
      <<Entry(sA, Arr(<<Obj(<<Entry(sB, Num)>>)>>))>>,
      <<Entry(Wrap(desc, sA), Num), Entry(Dot(sA, sB), Obj(<<Entry(sC, Num)>>))>> }

lvl0 == <<"l", "0">>

lvl1 == <<"l", "1">>

plain == <<"x">>

path == <<"x", " ", ">", " ", "y">>

bare == <<"5", ">", "3">>

halfSpaced == <<"x", " ", ">", "y">>

\* property values of a nested object
PropertyValues ==
    { Num, Bool, Null,
      Str(plain), Str(path), Str(bare), Str(halfSpaced),
      Arr(<<>>), Arr(<<Str(plain)>>), Arr(<<Str(path)>>),
      Arr(<<Num, Str(path)>>), Arr(<<Str(bare)>>),
      Arr(<<Num, Str(plain)>>), Arr(<<Arr(<<Str(path)>>)>>),
      Obj(<<Entry(lvl0, Str(path))>>) }

MixedValues == {Num, Str(plain), Str(path)}

\* nested objects with an array beside another property
ArrayObjects ==
    { Obj(<<Entry(lvl0, Arr(<<>>)), Entry(lvl1, Arr(<<Str(path)>>))>>),
      Obj(<<Entry(lvl0, Arr(<<Str(plain)>>)), Entry(lvl1, Str(path))>>),
      Obj(<<Entry(lvl0, Arr(<<>>)), Entry(lvl1, Arr(<<Num, Str(plain)>>))>>) }

NestedObjects ==
    {Obj(<<>>)}
    \cup ArrayObjects
    \cup {Obj(<<Entry(lvl0, v)>>) : v \in PropertyValues}
    \cup {Obj(<<Entry(lvl0, v), Entry(lvl1, w)>>) : v, w \in MixedValues}

TopLevelValues ==
    NestedObjects \cup {Null, Undefined, Num, Str(path), Arr(<<Str(path)>>)}

PairedValues ==
    { Arr(<<Str(path)>>),
      Obj(<<Entry(lvl0, Str(plain)), Entry(lvl1, Str(path))>>),
      Obj(<<Entry(lvl0, Str(bare))>>) }

\* top-level values the detector skips
SkippedValues == {Null, Undefined, Num, Str(path)}

\* records whose values the detector reads
DetectorRecords ==
    {<<Entry(sA, v)>> : v \in TopLevelValues}
    \cup {<<Entry(sA, v),
             Entry(sB, Obj(<<Entry(lvl0, Str(plain)), Entry(lvl1, Str(path))>>))>> :
               v \in SkippedValues}
    \cup {<<Entry(sB, v)>> : v \in PairedValues}
    \cup {<<Entry(sA, v), Entry(sB, w)>> : v, w \in PairedValues}
    \cup {<<Entry(sB, v), Entry(sA, w)>> : v, w \in PairedValues}

(***************************************************************************)
(* The callers                                                             *)
(***************************************************************************)
Revisions == {"filter", "flatMap"}

\* no generator has returned
GeneratorIdle ==
    /\ generator = "none"
    /\ limit = 0
    /\ prompt = <<>>
    /\ config = <<>>
    /\ reasoning = <<>>

\* no generateConfigurations call has been made and nothing is recorded
ConfigureIdle ==
    /\ options = {}
    /\ models = <<>>
    /\ promises = <<>>
    /\ configurations = <<>>
    /\ costs = <<>>
    /\ usageCalls = <<>>

\* the interactive mode is not running
ApplyIdle ==
    /\ sections = <<>>
    /\ prompts = [proceedWithAny |-> "unasked", preview |-> <<>>,
                  confirmApply |-> "unasked"]
    /\ sectionsToApply = <<>>
    /\ sectionCursor = 0
    /\ indexReplicas = <<>>
    /\ writes = <<>>
    /\ step = "idle"

\* a generator holding an LLM suggestion list and its sample records
InitValidate ==
    /\ revision \in Revisions
    /\ suggested \in SeqsUpTo(SuggestionPool, MaxAttributes)
    /\ attributes = suggested
    /\ records \in SeqsUpTo(ValidatorRecords, MaxRecords)
    /\ validAttributes = <<>>
    /\ hierarchicalFacets = <<>>
    /\ pc = "ready"
    /\ GeneratorIdle
    /\ ApplyIdle
    /\ ConfigureIdle

\* the faceting generator holding its sample records
InitDetect ==
    /\ revision = "filter"
    /\ suggested = <<>>
    /\ attributes = <<>>
    /\ records \in SeqsUpTo(DetectorRecords, MaxRecords)
    /\ validAttributes = <<>>
    /\ hierarchicalFacets = <<>>
    /\ pc = "ready"
    /\ GeneratorIdle
    /\ ApplyIdle
    /\ ConfigureIdle

Init == InitValidate

\* a validation that filters the caller's list in place
ValidateInPlace ==
    /\ pc = "ready"
    /\ validAttributes' = validateAttributes(revision, attributes, records)
    /\ attributes' = validAttributes'
    /\ pc' = "validated"
    /\ UNCHANGED <<revision, suggested, records, hierarchicalFacets,
                   generatorVars, applyVars, configureVars>>

\* validateAttributes(attributes, records, setting)
Validate ==
    /\ pc = "ready"
    /\ validAttributes' = validateAttributes(revision, attributes, records)
    /\ pc' = "validated"
    /\ UNCHANGED <<revision, suggested, attributes, records, hierarchicalFacets,
                   generatorVars, applyVars, configureVars>>

\* validateAttributes(validAttributes, records, setting): a second pass over
\* the list the first pass returned
Revalidate ==
    /\ pc = "validated"
    /\ attributes' = validAttributes
    /\ validAttributes' = validateAttributes(revision, validAttributes, records)
    /\ pc' = "revalidated"
    /\ UNCHANGED <<revision, suggested, records, hierarchicalFacets,
                   generatorVars, applyVars, configureVars>>

\* detectHierarchicalFacets(records)
Detect ==
    /\ pc = "ready"
    /\ hierarchicalFacets' = detectHierarchicalFacets(records)
    /\ pc' = "detected"
    /\ UNCHANGED <<revision, suggested, attributes, records, validAttributes,
                   generatorVars, applyVars, configureVars>>

Next == Validate \/ Revalidate \/ Detect

Spec == Init /\ [][Next]_vars

\* the detector alone, over records with every kind of nested value
SpecDetect == InitDetect /\ [][Detect]_vars

(***************************************************************************)
(* The generators, from the answer of the LLM on                           *)
(***************************************************************************)
\* object.reasoning
llmReasoning == [kind |-> "llm", names |-> <<>>, count |-> 0]

\* ` Additionally, detected hierarchical facets: ${names.join(', ')}.`
hierarchicalClause(names) ==
    [kind |-> "hierarchical", names |-> names, count |-> 0]

\* ` Filtered out ${count} non-existent attribute(s) from AI suggestions.`
filteredNote(count) == [kind |-> "filtered", names |-> <<>>, count |-> count]

\* a note for every count but zero
withFilteredNoteNonZero(text, filteredCount) ==
    IF filteredCount # 0 THEN Append(text, filteredNote(filteredCount)) ELSE text

\* if (filteredCount > 0) reasoning += ...
withFilteredNote(text, filteredCount) ==
    IF filteredCount > 0 THEN Append(text, filteredNote(filteredCount)) ELSE text

\* if (hierarchicalFacets.length > 0) reasoning += ...
withHierarchicalClause(text, names) ==
    IF Len(names) > 0 THEN Append(text, hierarchicalClause(names)) ELSE text

\* what the LLM may suggest to a generator
GeneratorSuggestions == {sA, sB, sC, Comma(sA, sB), Wrap(desc, sA)}

\* sample records of a generator, one of them with a hierarchy
GeneratorRecords ==
    { <<Entry(sA, Num), Entry(sB, Null)>>,
      <<Entry(sA, Obj(<<Entry(lvl1, Str(path))>>))>>,
      <<Entry(sB, Str(plain))>> }

\* Array.prototype.slice(0, end): a negative end counts from the length
slice(recs, end) ==
    LET stop == IF end < 0
                THEN (IF Len(recs) + end < 0 THEN 0 ELSE Len(recs) + end)
                ELSE (IF end > Len(recs) THEN Len(recs) ELSE end)
    IN  SubSeq(recs, 1, stop)

\* a sample that is all the records
sampleRecordsAll == records

\* const sampleRecords = records.slice(0, limit)
sampleRecords == slice(records, limit)

\* the sample without the attributes detected as hierarchical facets
filteredRecords(sample, detected) ==
    [i \in 1..Len(sample) |->
         SelectSeq(sample[i], LAMBDA entry : entry.key \notin Range(detected))]

InitGenerate ==
    /\ revision \in Revisions
    /\ suggested \in SeqsUpTo(GeneratorSuggestions, MaxAttributes)
    /\ attributes = suggested
    /\ records \in SeqsUpTo(GeneratorRecords, MaxRecords)
    /\ validAttributes = <<>>
    /\ hierarchicalFacets = <<>>
    /\ pc = "ready"
    /\ generator = "none"
    /\ limit \in 0..MaxRecords
    /\ prompt = <<>>
    /\ config = <<>>
    /\ reasoning = <<>>
    /\ ApplyIdle
    /\ ConfigureIdle

\* generateSearchableAttributes, the LLM having answered `attributes`
GenerateSearchableAttributes ==
    /\ pc = "ready"
    /\ LET searchableAttributes ==
               validateAttributes(revision, attributes, sampleRecords)
           filteredCount == Len(attributes) - Len(searchableAttributes)
       IN  /\ prompt' = sampleRecords
           /\ validAttributes' = searchableAttributes
           /\ config' = searchableAttributes
           /\ reasoning' = withFilteredNote(<<llmReasoning>>, filteredCount)
    /\ generator' = "searchableAttributes"
    /\ pc' = "generated"
    /\ UNCHANGED <<revision, suggested, attributes, records, hierarchicalFacets,
                   limit, applyVars, configureVars>>

\* generateCustomRanking, the LLM having answered `attributes`
GenerateCustomRanking ==
    /\ pc = "ready"
    /\ LET customRanking == validateAttributes(revision, attributes, sampleRecords)
           filteredCount == Len(attributes) - Len(customRanking)
       IN  /\ prompt' = sampleRecords
           /\ validAttributes' = customRanking
           /\ config' = customRanking
           /\ reasoning' = withFilteredNote(<<llmReasoning>>, filteredCount)
    /\ generator' = "customRanking"
    /\ pc' = "generated"
    /\ UNCHANGED <<revision, suggested, attributes, records, hierarchicalFacets,
                   limit, applyVars, configureVars>>

\* generateAttributesForFaceting, the LLM having answered `attributes`
GenerateAttributesForFaceting ==
    /\ pc = "ready"
    /\ LET detected == detectHierarchicalFacets(sampleRecords)
           validatedAttributes ==
               validateAttributes(revision, attributes, sampleRecords)
           filteredCount == Len(attributes) - Len(validatedAttributes)
       IN  /\ hierarchicalFacets' = detected
           /\ prompt' = filteredRecords(sampleRecords, detected)
           /\ validAttributes' = validatedAttributes
           /\ config' = detected \o validatedAttributes
           /\ reasoning' =
                  withFilteredNote(
                      withHierarchicalClause(<<llmReasoning>>, detected),
                      filteredCount)
    /\ generator' = "attributesForFaceting"
    /\ pc' = "generated"
    /\ UNCHANGED <<revision, suggested, attributes, records, limit, applyVars, configureVars>>

NextGenerate ==
    \/ GenerateSearchableAttributes
    \/ GenerateCustomRanking
    \/ GenerateAttributesForFaceting

\* the three validating generators, each on its own answer
SpecGenerate == InitGenerate /\ [][NextGenerate]_vars

(***************************************************************************)
(* The generators, the call of the LLM having failed                       *)
(***************************************************************************)
\* .slice(0, 3) of the fallback lists
fallbackLimit == 3

upperCase == <<"A", "B", "C", "D", "E", "F", "G", "H", "I", "J", "K", "L", "M",
               "N", "O", "P", "Q", "R", "S", "T", "U", "V", "W", "X", "Y", "Z">>

lowerCase == <<"a", "b", "c", "d", "e", "f", "g", "h", "i", "j", "k", "l", "m",
               "n", "o", "p", "q", "r", "s", "t", "u", "v", "w", "x", "y", "z">>

\* String.prototype.toLowerCase, on the letters A to Z
toLowerCase(s) ==
    [i \in 1..Len(s) |->
         IF \E k \in 1..26 : upperCase[k] = s[i]
         THEN lowerCase[CHOOSE k \in 1..26 : upperCase[k] = s[i]]
         ELSE s[i]]

\* lowerKey.includes(w) for one of the words
includesAny(key, words) == \E w \in words : includes(toLowerCase(key), w)

\* key.startsWith('_')
startsWithUnderscore(key) == Len(key) > 0 /\ key[1] = "_"

\* typeof value
typeof(value) ==
    IF value.type \in {"null", "array", "object"} THEN "object" ELSE value.type

objectID == <<"o", "b", "j", "e", "c", "t", "I", "D">>

\* the words of the fallback of generateSearchableAttributes
searchableExcludedWords == { <<"u", "r", "l">>,
      <<"i", "d">> }

\* the words of the fallback of generateCustomRanking
rankingWords ==
    { <<"s", "a", "l", "e", "s">>,
      <<"v", "i", "e", "w", "s">>,
      <<"l", "i", "k", "e", "s">>,
      <<"r", "a", "t", "i", "n", "g">>,
      <<"p", "o", "p", "u", "l", "a", "r", "i", "t", "y">>,
      <<"c", "o", "u", "n", "t">>,
      <<"s", "c", "o", "r", "e">> }

\* the words of the fallback of generateAttributesForFaceting
facetWords ==
    { <<"c", "a", "t", "e", "g", "o", "r", "y">>,
      <<"b", "r", "a", "n", "d">>,
      <<"t", "y", "p", "e">>,
      <<"g", "e", "n", "r", "e">>,
      <<"c", "o", "l", "o", "r">>,
      <<"s", "i", "z", "e">>,
      <<"s", "t", "a", "t", "u", "s">>,
      <<"a", "u", "t", "h", "o", "r">>,
      <<"d", "e", "s", "i", "g", "n", "e", "r">> }

facetExcludedWords ==
    { <<"i", "d">>,
      <<"u", "r", "l">>,
      <<"d", "e", "s", "c", "r", "i", "p", "t", "i", "o", "n">>,
      <<"t", "i", "t", "l", "e">>,
      <<"n", "a", "m", "e">>,
      <<"t", "e", "x", "t">> }

facetSearchableWords == { <<"b", "r", "a", "n", "d">>,
      <<"a", "u", "t", "h", "o", "r">>,
      <<"d", "e", "s", "i", "g", "n", "e", "r">> }

facetPlainWords == { <<"c", "a", "t", "e", "g", "o", "r", "y">>,
      <<"g", "e", "n", "r", "e">>,
      <<"t", "y", "p", "e">> }

facetFilterOnlyWords == { <<"s", "t", "a", "t", "u", "s">> }

\* the words of the fallback of generateSortByReplicas
sortingWords ==
    { <<"p", "r", "i", "c", "e">>,
      <<"c", "o", "s", "t">>,
      <<"d", "a", "t", "e">>,
      <<"r", "a", "t", "i", "n", "g">>,
      <<"s", "c", "o", "r", "e">>,
      <<"v", "i", "e", "w", "s">>,
      <<"l", "i", "k", "e", "s">>,
      <<"s", "a", "l", "e", "s">>,
      <<"c", "o", "u", "n", "t">>,
      <<"t", "i", "m", "e", "s", "t", "a", "m", "p">> }

\* .slice(0, n)
firstN(list, n) == SubSeq(list, 1, IF Len(list) < n THEN Len(list) ELSE n)

\* .slice(0, 3) of the matching keys
fallbackKeys(list) == firstN(list, fallbackLimit)

\* Object.keys(sampleRecords[0] || {}) with the value of each key
firstRecordOrEmpty(sample) == IF sample = <<>> THEN <<>> ELSE sample[1]

keysOf(entries) == [i \in 1..Len(entries) |-> entries[i].key]

\* the catch branch of generateSearchableAttributes
searchableFallback(sample) ==
    keysOf(SelectSeq(firstRecordOrEmpty(sample),
               LAMBDA e :
                   /\ ~startsWithUnderscore(e.key)
                   /\ e.key # objectID
                   /\ ~includesAny(e.key, searchableExcludedWords)
                   /\ typeof(e.value) = "string"))

\* the catch branch of generateCustomRanking, for a first record that is there
rankingFallback(firstRecord) ==
    LET keys == keysOf(SelectSeq(firstRecord,
                           LAMBDA e :
                               /\ typeof(e.value) \in {"number", "boolean"}
                               /\ includesAny(e.key, rankingWords)))
        cut == fallbackKeys(keys)
    IN  [i \in 1..Len(cut) |-> Wrap(desc, cut[i])]

\* the modifier the fallback of the faceting generator gives a key
facetModifier(key) ==
    IF includesAny(key, facetSearchableWords)
    THEN Wrap(searchable, key)
    ELSE IF includesAny(key, facetPlainWords)
         THEN key
         ELSE IF includesAny(key, facetFilterOnlyWords)
              THEN Wrap(filterOnly, key)
              ELSE key

\* the catch branch of generateAttributesForFaceting: fallbackFacets
facetingFallback(sample, detected) ==
    LET keys == keysOf(SelectSeq(firstRecordOrEmpty(sample),
                           LAMBDA e :
                               /\ e.key \notin Range(detected)
                               /\ typeof(e.value) \in {"string", "boolean"}
                               /\ includesAny(e.key, facetWords)
                               /\ ~includesAny(e.key, facetExcludedWords)
                               /\ ~startsWithUnderscore(e.key)
                               /\ e.value.type # "null"))
        cut == fallbackKeys(keys)
    IN  [i \in 1..Len(cut) |-> facetModifier(cut[i])]

\* the catch branch of generateSortByReplicas
sortableFallback(sample) ==
    LET keys == keysOf(SelectSeq(firstRecordOrEmpty(sample),
                           LAMBDA e :
                               /\ typeof(e.value) = "number"
                               /\ includesAny(e.key, sortingWords)))
        cut == fallbackKeys(keys)
    IN  [i \in 1..Len(cut) |-> Wrap(desc, cut[i])]

\* 'Fallback: ...'
fallbackReasoning(selected) ==
    [kind |-> "fallback", names |-> <<>>, count |-> IF selected THEN 1 ELSE 0]

\* ' Applied appropriate faceting modifiers based on attribute types.'
modifiersNote == [kind |-> "modifiers", names |-> <<>>, count |-> 0]

\* first records with more than three keys of every kind
FallbackRecords ==
    { << Entry(<<"s", "a", "l", "e", "s">>, Num), Entry(<<"v", "i", "e", "w", "C", "o", "u", "n", "t">>, Num), Entry(<<"l", "i", "k", "e", "s">>, Num),
         Entry(<<"r", "a", "t", "i", "n", "g">>, Num), Entry(<<"p", "r", "i", "c", "e">>, Num), Entry(<<"t", "i", "t", "l", "e">>, Str(plain)) >>,
      << Entry(objectID, Str(plain)), Entry(<<"_", "t", "a", "g", "s">>, Str(plain)),
         Entry(<<"t", "r", "e", "e">>, Obj(<<Entry(lvl1, Str(path))>>)),
         Entry(<<"b", "r", "a", "n", "d">>, Str(plain)), Entry(<<"c", "a", "t", "e", "g", "o", "r", "y">>, Str(plain)),
         Entry(<<"b", "r", "a", "n", "d", "I", "d">>, Str(plain)), Entry(<<"s", "t", "a", "t", "u", "s">>, Str(plain)),
         Entry(<<"c", "o", "l", "o", "r">>, Bool), Entry(<<"i", "m", "a", "g", "e", "U", "r", "l">>, Str(plain)) >>,
      << Entry(<<"R", "a", "t", "i", "n", "g">>, Num), Entry(<<"P", "r", "i", "c", "e">>, Null), Entry(<<"g", "e", "n", "r", "e">>, Str(plain)),
         Entry(<<"i", "n", "S", "t", "o", "c", "k">>, Bool) >> }

InitFallback ==
    /\ revision = "filter"
    /\ suggested = <<>>
    /\ attributes = <<>>
    /\ records \in SeqsUpTo(FallbackRecords, MaxRecords)
    /\ validAttributes = <<>>
    /\ hierarchicalFacets = <<>>
    /\ pc = "ready"
    /\ generator = "none"
    /\ limit \in 0..MaxRecords
    /\ prompt = <<>>
    /\ config = <<>>
    /\ reasoning = <<>>
    /\ ApplyIdle
    /\ ConfigureIdle

\* generateSearchableAttributes, generateObject having thrown
FallbackSearchableAttributes ==
    /\ pc = "ready"
    /\ prompt' = sampleRecords
    /\ config' = searchableFallback(sampleRecords)
    /\ reasoning' = <<fallbackReasoning(TRUE)>>
    /\ generator' = "searchableAttributes"
    /\ pc' = "fellBack"
    /\ UNCHANGED <<revision, suggested, attributes, records, validAttributes,
                   hierarchicalFacets, limit, applyVars, configureVars>>

\* generateCustomRanking, generateObject having thrown; Object.keys of the
\* first record throws a TypeError when there is no first record
FallbackCustomRanking ==
    /\ pc = "ready"
    /\ prompt' = sampleRecords
    /\ generator' = "customRanking"
    /\ IF sampleRecords = <<>>
       THEN /\ pc' = "raised"
            /\ UNCHANGED <<config, reasoning>>
       ELSE /\ config' = rankingFallback(sampleRecords[1])
            /\ reasoning' = <<fallbackReasoning(TRUE)>>
            /\ pc' = "fellBack"
    /\ UNCHANGED <<revision, suggested, attributes, records, validAttributes,
                   hierarchicalFacets, limit, applyVars, configureVars>>

\* generateAttributesForFaceting, generateObject having thrown
FallbackAttributesForFaceting ==
    /\ pc = "ready"
    /\ LET detected == detectHierarchicalFacets(sampleRecords)
           fallbackFacets == facetingFallback(sampleRecords, detected)
           allFallbackFacets == detected \o fallbackFacets
       IN  /\ hierarchicalFacets' = detected
           /\ prompt' = filteredRecords(sampleRecords, detected)
           /\ config' = allFallbackFacets
           /\ reasoning' =
                  <<fallbackReasoning(Len(fallbackFacets) > 0)>>
                  \o (IF Len(detected) > 0
                      THEN <<hierarchicalClause(detected)>> ELSE <<>>)
                  \o (IF Len(allFallbackFacets) > 0
                      THEN <<modifiersNote>> ELSE <<>>)
    /\ generator' = "attributesForFaceting"
    /\ pc' = "fellBack"
    /\ UNCHANGED <<revision, suggested, attributes, records, validAttributes,
                   limit, applyVars, configureVars>>

\* generateSortByReplicas, generateObject having thrown
FallbackSortByReplicas ==
    /\ pc = "ready"
    /\ prompt' = sampleRecords
    /\ config' = sortableFallback(sampleRecords)
    /\ reasoning' = <<fallbackReasoning(TRUE)>>
    /\ generator' = "sortableAttributes"
    /\ pc' = "fellBack"
    /\ UNCHANGED <<revision, suggested, attributes, records, validAttributes,
                   hierarchicalFacets, limit, applyVars, configureVars>>

NextFallback ==
    \/ FallbackSearchableAttributes
    \/ FallbackCustomRanking
    \/ FallbackAttributesForFaceting
    \/ FallbackSortByReplicas

\* the four generators, each with its LLM call failing
SpecFallback == InitFallback /\ [][NextFallback]_vars

(***************************************************************************)
(* The interactive mode: promptApplyConfiguration                          *)
(***************************************************************************)
MaxSortable == 2

MaxReplicas == 2

\* options.indexName
indexName == <<"i">>

Directions == {asc, desc}

\* sortAttribute.match(/^(asc|desc)\((.+)\)$/)
matchesSortFormat(sortAttribute) ==
    \E m \in Directions : matchesModifier(sortAttribute, m)

\* `${options.indexName}_${attribute}_${direction}`
replicaName(sortAttribute) ==
    LET direction == CHOOSE m \in Directions : matchesModifier(sortAttribute, m)
        attribute == SubSeq(sortAttribute, Len(direction) + 2,
                            Len(sortAttribute) - 1)
    IN  indexName \o <<"_">> \o attribute \o <<"_">> \o direction

\* a loop that does not look at the replicas the index has
RECURSIVE replicasToCreateAll(_, _)
replicasToCreateAll(sortAttributes, existingReplicas) ==
    IF sortAttributes = <<>>
    THEN <<>>
    ELSE LET sortAttribute == Head(sortAttributes)
             rest == replicasToCreateAll(Tail(sortAttributes), existingReplicas)
         IN  IF ~matchesSortFormat(sortAttribute)
             THEN rest
             ELSE <<replicaName(sortAttribute)>> \o rest

\* for (const sortAttribute of section.config) ... replicasToCreate.push
RECURSIVE replicasToCreate(_, _)
replicasToCreate(sortAttributes, existingReplicas) ==
    IF sortAttributes = <<>>
    THEN <<>>
    ELSE LET sortAttribute == Head(sortAttributes)
             rest == replicasToCreate(Tail(sortAttributes), existingReplicas)
         IN  IF ~matchesSortFormat(sortAttribute)
             THEN rest
             ELSE IF replicaName(sortAttribute) \in Range(existingReplicas)
                  THEN rest
                  ELSE <<replicaName(sortAttribute)>> \o rest

\* the criteria that follow the sort attribute in a replica's ranking
defaultRanking ==
    << <<"t", "y", "p", "o">>, <<"g", "e", "o">>, <<"w", "o", "r", "d", "s">>,
       <<"f", "i", "l", "t", "e", "r", "s">>,
       <<"p", "r", "o", "x", "i", "m", "i", "t", "y">>,
       <<"a", "t", "t", "r", "i", "b", "u", "t", "e">>,
       <<"e", "x", "a", "c", "t">>, <<"c", "u", "s", "t", "o", "m">> >>

\* replicaSettings[replicaName] = { ranking: [sortAttribute, ...] }; two
\* entries with one replica name are the same string, so the last
\* assignment to a key writes what the first wrote
replicaSettings(sortAttributes, name) ==
    LET sortAttribute == CHOOSE x \in Range(sortAttributes) :
                             matchesSortFormat(x) /\ replicaName(x) = name
    IN  <<sortAttribute>> \o defaultRanking

\* one client.setSettings({ indexName, indexSettings }) and whether it resolved
setSettings(name, setting, value, ok) ==
    [indexName |-> name, setting |-> setting, value |-> value, ok |-> ok]

\* the replicas configured first and listed on the main index afterwards
sortableWritesReplicasFirst(sortAttributes, existingReplicas, mainOk, replicaOk) ==
    LET create == replicasToCreate(sortAttributes, existingReplicas)
    IN  IF create = <<>>
        THEN <<>>
        ELSE [i \in 1..Len(create) |->
                  setSettings(create[i], "ranking",
                              replicaSettings(sortAttributes, create[i]),
                              replicaOk[i])]
             \o <<setSettings(indexName, "replicas",
                              existingReplicas \o create, mainOk)>>

\* a loop over replicasToCreate without its try/catch: the first rejected
\* write ends it
sortableWritesStopAtFailure(sortAttributes, existingReplicas, mainOk, replicaOk) ==
    LET create == replicasToCreate(sortAttributes, existingReplicas)
        reached == {i \in 1..Len(create) : \A j \in 1..(i - 1) : replicaOk[j]}
    IN  IF create = <<>>
        THEN <<>>
        ELSE <<setSettings(indexName, "replicas",
                           existingReplicas \o create, mainOk)>>
             \o (IF mainOk
                 THEN [i \in 1..Cardinality(reached) |->
                           setSettings(create[i], "ranking",
                                       replicaSettings(sortAttributes, create[i]),
                                       replicaOk[i])]
                 ELSE <<>>)

\* the setSettings calls of applySortableAttributes, in the order issued;
\* a rejected write to the main index throws before any replica is configured
sortableWrites(sortAttributes, existingReplicas, mainOk, replicaOk) ==
    LET create == replicasToCreate(sortAttributes, existingReplicas)
    IN  IF create = <<>>
        THEN <<>>
        ELSE <<setSettings(indexName, "replicas",
                           existingReplicas \o create, mainOk)>>
             \o (IF mainOk
                 THEN [i \in 1..Len(create) |->
                           setSettings(create[i], "ranking",
                                       replicaSettings(sortAttributes, create[i]),
                                       replicaOk[i])]
                 ELSE <<>>)

sP == <<"p">>

sQ == <<"q">>

\* what the sortable section may hold
SortablePool == {Wrap(desc, sP), Wrap(asc, sP), Wrap(desc, sQ), sP}

\* replicas the main index may have before the run
ReplicaPool == {replicaName(Wrap(desc, sP)), replicaName(Wrap(asc, sP)), <<"o">>}

ExistingReplicaLists ==
    {r \in SeqsUpTo(ReplicaPool, MaxReplicas) :
         \A i, j \in 1..Len(r) : i # j => r[i] # r[j]}

Section(type, items) == [type |-> type, config |-> items]

\* configSections: the sections of the generators that ran, sortable last
SectionLists ==
    {<<Section("sortableAttributes", c)>> :
         c \in SeqsUpTo(SortablePool, MaxSortable)}
    \cup {<<Section("searchableAttributes", <<sA>>),
            Section("sortableAttributes", c)>> :
              c \in SeqsUpTo(SortablePool, MaxSortable)}
    \cup {<<Section("customRanking", <<Wrap(desc, sA)>>),
            Section("attributesForFaceting", <<sA>>)>>}

\* the ticked choices, in the order of the choices
RECURSIVE inChoiceOrder(_)
inChoiceOrder(ticked) ==
    IF ticked = {}
    THEN <<>>
    ELSE LET first == CHOOSE i \in ticked : \A j \in ticked : i <= j
         IN  <<first>> \o inChoiceOrder(ticked \ {first})

InitApply ==
    /\ revision = "filter"
    /\ suggested = <<>>
    /\ attributes = <<>>
    /\ records = <<>>
    /\ validAttributes = <<>>
    /\ hierarchicalFacets = <<>>
    /\ pc = "interactive"
    /\ GeneratorIdle
    /\ ConfigureIdle
    /\ sections \in SectionLists
    /\ prompts = [proceedWithAny |-> "unasked", preview |-> <<>>,
                  confirmApply |-> "unasked"]
    /\ sectionsToApply = <<>>
    /\ sectionCursor = 0
    /\ indexReplicas \in ExistingReplicaLists
    /\ writes = <<>>
    /\ step = "proceedWithAny"

validatorVars == <<revision, suggested, attributes, records, validAttributes,
                   hierarchicalFacets, pc>>

\* 'Would you like to apply any of these configurations?'
AnswerProceedWithAny ==
    /\ step = "proceedWithAny"
    /\ \E proceedWithAny \in BOOLEAN :
           /\ prompts' = [prompts EXCEPT !.proceedWithAny =
                              IF proceedWithAny THEN "yes" ELSE "no"]
           /\ step' = IF proceedWithAny THEN "sectionsToApply" ELSE "done"
    /\ UNCHANGED <<validatorVars, generatorVars, configureVars, sections, sectionsToApply,
                   sectionCursor, indexReplicas, writes>>

\* 'Select which configurations to apply:', then the preview
AnswerSectionsToApply ==
    /\ step = "sectionsToApply"
    /\ \E ticked \in SUBSET (1..Len(sections)) :
           /\ sectionsToApply' = inChoiceOrder(ticked)
           /\ prompts' = [prompts EXCEPT !.preview = inChoiceOrder(ticked)]
           /\ step' = IF ticked = {} THEN "done" ELSE "confirmApply"
    /\ UNCHANGED <<validatorVars, generatorVars, configureVars, sections, sectionCursor,
                   indexReplicas, writes>>

\* a confirmation whose answer is not looked at
AnswerConfirmApplyIgnored ==
    /\ step = "confirmApply"
    /\ \E confirmApply \in BOOLEAN :
           /\ prompts' = [prompts EXCEPT !.confirmApply =
                              IF confirmApply THEN "yes" ELSE "no"]
           /\ step' = "applying"
           /\ sectionCursor' = 1
    /\ UNCHANGED <<validatorVars, generatorVars, configureVars, sections, sectionsToApply,
                   indexReplicas, writes>>

\* 'Apply these changes to your Algolia index?'
AnswerConfirmApply ==
    /\ step = "confirmApply"
    /\ \E confirmApply \in BOOLEAN :
           /\ prompts' = [prompts EXCEPT !.confirmApply =
                              IF confirmApply THEN "yes" ELSE "no"]
           /\ step' = IF confirmApply THEN "applying" ELSE "done"
           /\ sectionCursor' = IF confirmApply THEN 1 ELSE sectionCursor
    /\ UNCHANGED <<validatorVars, generatorVars, configureVars, sections, sectionsToApply,
                   indexReplicas, writes>>

\* the section the loop over sectionsToApply is at
section == sections[sectionsToApply[sectionCursor]]

\* the loop goes on to the next ticked section, whether the call threw or not
nextSection ==
    /\ sectionCursor' = sectionCursor + 1
    /\ step' = IF sectionCursor < Len(sectionsToApply) THEN "applying" ELSE "done"

\* applyConfigurationToIndex for a section that is one setting of the index
ApplySettings ==
    /\ step = "applying"
    /\ section.type # "sortableAttributes"
    /\ \E ok \in BOOLEAN :
           writes' = Append(writes,
                            setSettings(indexName, section.type, section.config, ok))
    /\ nextSection
    /\ UNCHANGED <<validatorVars, generatorVars, configureVars, sections, prompts,
                   sectionsToApply, indexReplicas>>

\* applyConfigurationToIndex for the sortable section: applySortableAttributes
ApplySortableAttributes ==
    /\ step = "applying"
    /\ section.type = "sortableAttributes"
    /\ \E getOk, mainOk \in BOOLEAN :
       \E replicaOk \in [1..Len(replicasToCreate(section.config, indexReplicas))
                             -> BOOLEAN] :
           LET issued == IF getOk
                         THEN sortableWrites(section.config, indexReplicas,
                                             mainOk, replicaOk)
                         ELSE <<>>
           IN  /\ writes' = writes \o issued
               /\ indexReplicas' =
                      IF issued # <<>> /\ mainOk
                      THEN issued[1].value
                      ELSE indexReplicas
    /\ nextSection
    /\ UNCHANGED <<validatorVars, generatorVars, configureVars, sections, prompts,
                   sectionsToApply>>

NextApply ==
    \/ AnswerProceedWithAny
    \/ AnswerSectionsToApply
    \/ AnswerConfirmApply
    \/ ApplySettings
    \/ ApplySortableAttributes

\* the interactive mode, from the first prompt to the last write
SpecApply == InitApply /\ [][NextApply]_vars

(***************************************************************************)
(* generateConfigurations and the CLI cost tracker                         *)
(***************************************************************************)

\* the four configurations, in the order of the Promise.all array
ConfigurationTypes == <<"searchable", "ranking", "faceting", "sortable">>

TypeSet == {ConfigurationTypes[k] : k \in DOMAIN ConfigurationTypes}

DEFAULT_MODEL == "claude-3-5-haiku-latest"

otherModel == "claude-3-5-sonnet-latest"

\* the pricing of the two models used here, per million tokens, in tenths
\* of a dollar so that every price is an integer
MODEL_CONFIGS ==
    [name \in {"claude-3-5-haiku-latest", "claude-3-5-sonnet-latest"} |->
        IF name = "claude-3-5-haiku-latest"
        THEN [inputTokenCost |-> 8, outputTokenCost |-> 40]
        ELSE [inputTokenCost |-> 30, outputTokenCost |-> 150]]

\* a model the table does not list has no pricing
hasPricing(modelName) == modelName \in DOMAIN MODEL_CONFIGS

getModelPricing(modelName) == MODEL_CONFIGS[modelName]

\* in tenths of a millionth of a dollar
calculateCost(modelName, usage) ==
    IF ~hasPricing(modelName) THEN 0
    ELSE LET pricing == getModelPricing(modelName)
             inputCost == usage.promptTokens * pricing.inputTokenCost
             outputCost == usage.completionTokens * pricing.outputTokenCost
         IN  inputCost + outputCost

RECURSIVE getTotalCost(_)
getTotalCost(cs) ==
    IF cs = <<>> THEN 0 ELSE Head(cs).cost + getTotalCost(Tail(cs))

zeroUsage == [promptTokens |-> 0, completionTokens |-> 0, totalTokens |-> 0]

RECURSIVE reduceTokens(_, _)
reduceTokens(total, cs) ==
    IF cs = <<>> THEN total
    ELSE LET usage == Head(cs).usage
         IN  reduceTokens(
                 [promptTokens |-> total.promptTokens + usage.promptTokens,
                  completionTokens |->
                      total.completionTokens + usage.completionTokens,
                  totalTokens |-> total.totalTokens + usage.totalTokens],
                 Tail(cs))

getTotalTokens(cs) == reduceTokens(zeroUsage, cs)

\* the loop of getCostsByModel over the entries left, `result` so far
RECURSIVE costsByModelLoop(_, _)
costsByModelLoop(result, cs) ==
    IF cs = <<>> THEN result
    ELSE LET entry == Head(cs)
             started ==
                 IF entry.modelName \in DOMAIN result THEN result
                 ELSE [name \in DOMAIN result \cup {entry.modelName} |->
                          IF name \in DOMAIN result THEN result[name]
                          ELSE [cost |-> 0, usage |-> zeroUsage]]
             was == started[entry.modelName]
         IN  costsByModelLoop(
                 [started EXCEPT ![entry.modelName] =
                     [cost |-> was.cost + entry.cost,
                      usage |->
                          [promptTokens |->
                               was.usage.promptTokens + entry.usage.promptTokens,
                           completionTokens |->
                               was.usage.completionTokens
                                   + entry.usage.completionTokens,
                           totalTokens |->
                               was.usage.totalTokens + entry.usage.totalTokens]]],
                 Tail(cs))

getCostsByModel(cs) == costsByModelLoop([name \in {} |-> zeroUsage], cs)

addUsageOverwrite(cs, modelName, usage) ==
    <<[modelName |-> modelName, usage |-> usage,
       cost |-> calculateCost(modelName, usage)]>>

addUsage(cs, modelName, usage) ==
    Append(cs, [modelName |-> modelName, usage |-> usage,
                cost |-> calculateCost(modelName, usage)])

getCostSummary(cs) ==
    [totalCost |-> getTotalCost(cs),
     totalUsage |-> getTotalTokens(cs),
     costsByModel |-> getCostsByModel(cs)]

getCliCostSummary == getCostSummary(costs)

determineConfigurationsToGenerateNoDefault(opts) ==
    [type \in TypeSet |-> type \in opts]

\* opts is the set of the flags given; the result maps each configuration
\* to its shouldGenerate value
determineConfigurationsToGenerate(opts) ==
    LET generateAll == /\ "searchable" \notin opts
                       /\ "ranking" \notin opts
                       /\ "faceting" \notin opts
                       /\ "sortable" \notin opts
    IN  [type \in TypeSet |-> generateAll \/ type \in opts]

\* the usage objects an LLM call reports
Usages ==
    { [promptTokens |-> 1, completionTokens |-> 2, totalTokens |-> 3],
      [promptTokens |-> 3, completionTokens |-> 1, totalTokens |-> 4] }

\* one model, or the two models of --compare-models
ModelLists ==
    { <<DEFAULT_MODEL>>, <<DEFAULT_MODEL, otherModel>> }

ConfigureRecords == { <<>>, <<<<Entry(sA, Num)>>>> }

InitConfigure ==
    /\ revision = "filter"
    /\ suggested = <<>>
    /\ attributes = <<>>
    /\ records \in ConfigureRecords
    /\ validAttributes = <<>>
    /\ hierarchicalFacets = <<>>
    /\ pc = "compare"
    /\ generator = "none"
    /\ limit = MaxRecords
    /\ prompt = <<>>
    /\ config = <<>>
    /\ reasoning = <<>>
    /\ ApplyIdle
    /\ options \in SUBSET TypeSet
    /\ models \in ModelLists
    /\ promises = <<>>
    /\ configurations = <<>>
    /\ costs = <<>>
    /\ usageCalls = <<>>

\* the promise of a generateConfigurations call that has not settled
notReturned == [state |-> "pending", value |-> [type \in TypeSet |-> "none"]]

\* the synchronous part of every generateConfigurations call the command
\* makes, up to the await of its Promise.all
GenerateConfigurations ==
    /\ pc = "compare"
    /\ pc' = "generating"
    /\ LET should == determineConfigurationsToGenerate(options)
       IN  promises' =
               [i \in DOMAIN models |->
                   [type \in TypeSet |->
                       IF should[type] THEN "pending" ELSE "resolvedNull"]]
    /\ configurations' = [i \in DOMAIN models |-> notReturned]
    /\ UNCHANGED <<revision, suggested, attributes, records, validAttributes,
                   hierarchicalFacets, generatorVars, applyVars, options,
                   models, costs, usageCalls>>

\* a generator of call i returns; withUsage tells whether it reaches an
\* addCliUsage call site
settle(i, type, withUsage) ==
    /\ pc = "generating"
    /\ i \in DOMAIN promises
    /\ promises[i][type] = "pending"
    /\ promises' = [promises EXCEPT ![i][type] = "fulfilled"]
    /\ \/ /\ withUsage
          /\ \E usage \in Usages :
                /\ costs' = addUsage(costs, models[i], usage)
                /\ usageCalls' = Append(usageCalls, [modelName |-> models[i],
                                                     usage |-> usage])
       \/ UNCHANGED <<costs, usageCalls>>
    /\ UNCHANGED <<revision, suggested, attributes, records, validAttributes,
                   hierarchicalFacets, pc, generatorVars, applyVars, options,
                   models, configurations>>

SettleSearchableAttributes == \E i \in DOMAIN models : settle(i, "searchable", TRUE)

SettleCustomRanking == \E i \in DOMAIN models : settle(i, "ranking", TRUE)

\* the LLM call fails on an empty sample: the catch block throws, the
\* Promise.all rejects and the command exits
RejectCustomRanking ==
    \E i \in DOMAIN models :
        /\ pc = "generating"
        /\ promises[i]["ranking"] = "pending"
        /\ sampleRecords = <<>>
        /\ promises' = [promises EXCEPT ![i]["ranking"] = "rejected"]
        /\ configurations' = [configurations EXCEPT ![i].state = "rejected"]
        /\ pc' = "exited"
        /\ UNCHANGED <<revision, suggested, attributes, records,
                       validAttributes, hierarchicalFacets, generatorVars,
                       applyVars, options, models, costs, usageCalls>>

SettleAttributesForFaceting == \E i \in DOMAIN models : settle(i, "faceting", TRUE)

SettleSortByReplicas == \E i \in DOMAIN models : settle(i, "sortable", FALSE)

\* the Promise.all of call i is fulfilled and generateConfigurations returns
ReturnConfigurations ==
    \E i \in DOMAIN models :
        /\ pc = "generating"
        /\ configurations[i].state = "pending"
        /\ \A type \in TypeSet : promises[i][type] # "pending"
        /\ configurations' =
               [configurations EXCEPT ![i] =
                   [state |-> "fulfilled",
                    value |-> [type \in TypeSet |->
                                 IF promises[i][type] = "resolvedNull"
                                 THEN "null" ELSE "generated"]]]
        /\ UNCHANGED <<revision, suggested, attributes, records,
                       validAttributes, hierarchicalFacets, pc, generatorVars,
                       applyVars, options, models, promises, costs, usageCalls>>

NextConfigure ==
    \/ GenerateConfigurations
    \/ SettleSearchableAttributes
    \/ SettleCustomRanking
    \/ RejectCustomRanking
    \/ SettleAttributesForFaceting
    \/ SettleSortByReplicas
    \/ ReturnConfigurations

SpecConfigure == InitConfigure /\ [][NextConfigure]_vars

(***************************************************************************)
(* Vocabulary of the properties                                            *)
(***************************************************************************)
\* x is y with some entries removed: same strings, same relative order
IsSubsequence(x, y) ==
    /\ Len(x) <= Len(y)
    /\ \E f \in [1..Len(x) -> 1..Len(y)] :
           /\ \A i \in 1..Len(x) : x[i] = y[f[i]]
           /\ \A i, j \in 1..Len(x) : i < j => f[i] < f[j]

TopLevelEntries(recs) == UNION {Range(recs[i]) : i \in 1..Len(recs)}

TopLevelKeys(recs) == {e.key : e \in TopLevelEntries(recs)}

\* "parent.child" for every child of a top-level non-null, non-array object
ParentChildPaths(recs) ==
    UNION {{Dot(e.key, p.key) : p \in Range(e.value.props)} :
               e \in {t \in TopLevelEntries(recs) : t.value.type = "object"}}

ExpectedNames(recs) == TopLevelKeys(recs) \cup ParentChildPaths(recs)

\* "a.b.c": a path through an object nested in a top-level object
DeepPaths(recs) ==
    UNION {UNION {{Dot(Dot(e.key, p.key), q.key) : q \in Range(p.value.props)} :
                      p \in {r \in Range(e.value.props) : r.value.type = "object"}} :
               e \in {t \in TopLevelEntries(recs) : t.value.type = "object"}}

\* "a.b": a path into an object that sits in a top-level array
ArrayPaths(recs) ==
    UNION {UNION {{Dot(e.key, p.key) : p \in Range(x.props)} :
                      x \in {y \in Range(e.value.items) : y.type = "object"}} :
               e \in {t \in TopLevelEntries(recs) : t.value.type = "array"}}

HasChar(s, ch) == \E i \in 1..Len(s) : s[i] = ch

\* a bare name: no wrapper, no comma
IsBareName(s) == ~HasChar(s, "(") /\ ~HasChar(s, ")") /\ ~HasChar(s, ",")

\* m(x) with m a known modifier and x not empty
IsWrapped(s) ==
    \E m \in Modifiers :
        Len(s) >= Len(m) + 3 /\ s = Wrap(m, SubSeq(s, Len(m) + 2, Len(s) - 1))

\* the x of m(x)
InnerOf(s) ==
    LET m == CHOOSE n \in Modifiers : s = Wrap(n, SubSeq(s, Len(n) + 2, Len(s) - 1))
    IN  SubSeq(s, Len(m) + 2, Len(s) - 1)

\* every comma-separated name of the expression x is a valid key
ExpressionValid(x, recs) ==
    \A n \in Range(split(x)) : n \in ExpectedNames(recs)

Validated == pc = "validated" /\ records # <<>>

(***************************************************************************)
(* Validator properties                                                    *)
(***************************************************************************)
\* C1: with non-empty records, the list validateAttributes returns is a
\* subsequence of the suggestion list: original strings, original order,
\* nothing added or rewritten.
C1_ResultIsSubsequence ==
    Validated => IsSubsequence(validAttributes, attributes)

\* C1 for the revision that filters the suggestion list itself
\* (validate-attributes, attributes.filter): there the result is a
\* subsequence of the suggestions.
C1_FilterRevisionSubsequence ==
    (Validated /\ revision = "filter")
        => IsSubsequence(validAttributes, attributes)

\* C2: a wrapped entry m(x) survives exactly when its inner expression x is
\* valid, and it is returned still wrapped (the entry itself is in the
\* result).
C2_WrappedValidatedByInner ==
    Validated =>
        \A i \in 1..Len(attributes) :
            IsWrapped(attributes[i]) =>
                (attributes[i] \in Range(validAttributes)
                     <=> ExpressionValid(InnerOf(attributes[i]), records))

\* C2 for the revision that filters the suggestion list itself.
C2_FilterRevisionWrapped ==
    (Validated /\ revision = "filter") =>
        \A i \in 1..Len(attributes) :
            IsWrapped(attributes[i]) =>
                (attributes[i] \in Range(validAttributes)
                     <=> ExpressionValid(InnerOf(attributes[i]), records))

\* C3: a comma-joined entry survives only if every one of its names is a
\* valid key, and a surviving entry is returned as the one original
\* comma-joined string: no name of it appears as an entry of its own.
C3_CommaJoinedAllOrNothing ==
    Validated =>
        \A i \in 1..Len(attributes) :
            (HasChar(attributes[i], ",") /\ ~HasChar(attributes[i], "(")) =>
                /\ attributes[i] \in Range(validAttributes)
                       <=> ExpressionValid(attributes[i], records)
                /\ \A n \in Range(split(attributes[i])) :
                       n \in Range(validAttributes) => n \in Range(attributes)

\* C3 for the revision that filters the suggestion list itself.
C3_FilterRevisionComma ==
    (Validated /\ revision = "filter") =>
        \A i \in 1..Len(attributes) :
            (HasChar(attributes[i], ",") /\ ~HasChar(attributes[i], "(")) =>
                /\ attributes[i] \in Range(validAttributes)
                       <=> ExpressionValid(attributes[i], records)
                /\ \A n \in Range(split(attributes[i])) :
                       n \in Range(validAttributes) => n \in Range(attributes)

\* C4: the valid-key set is exactly the top-level keys of every record plus
\* "parent.child" for the children of top-level plain objects, as a union
\* over the records; a bare name is accepted exactly when it is in that set,
\* and a deeper path or a path under an array is accepted only when that
\* very string is in the set.
C4_ValidKeySet ==
    /\ allAttributeNames(records) = ExpectedNames(records)
    /\ Validated =>
           /\ \A i \in 1..Len(attributes) :
                  IsBareName(attributes[i]) =>
                      (attributes[i] \in Range(validAttributes)
                           <=> attributes[i] \in ExpectedNames(records))
           /\ \A n \in DeepPaths(records) \cup ArrayPaths(records) :
                  n \notin ExpectedNames(records)
                      => n \notin Range(validAttributes)

\* a record list in which "a.b" comes from the second record only, "a.b.c"
\* is a deeper path and "a.b" is also a path under an array; "a.b" is
\* accepted and "a.b.c" is dropped
C4_Witness ==
    /\ Validated
    /\ records = << <<Entry(sA, Arr(<<Obj(<<Entry(sB, Num)>>)>>))>>,
                    <<Entry(sA, Obj(<<Entry(sB, Obj(<<Entry(sC, Num)>>))>>))>> >>
    /\ attributes = <<Dot(Dot(sA, sB), sC), Dot(sA, sB)>>
    /\ validAttributes = <<Dot(sA, sB)>>
    /\ Dot(Dot(sA, sB), sC) \in DeepPaths(records)
    /\ Dot(sA, sB) \in ArrayPaths(records)

\* C5: validating the validated list again returns it unchanged.
C5_Idempotent ==
    pc = "revalidated" => validAttributes = attributes

\* C5 for the revision that filters the suggestion list itself.
C5_FilterRevisionIdempotent ==
    (pc = "revalidated" /\ revision = "filter") => validAttributes = attributes

\* C6: with an empty record list validateAttributes returns the empty list,
\* whatever the suggestions are.
C6_EmptyRecordsEmptyResult ==
    (pc \in {"validated", "revalidated"} /\ records = <<>>)
        => validAttributes = <<>>

C6_Witness ==
    /\ pc = "validated"
    /\ records = <<>>
    /\ Len(attributes) = MaxAttributes
    /\ validAttributes = <<>>

\* name(x) with a name that is no known modifier
IsUnknownWrapper(s) ==
    /\ Len(s) >= 4
    /\ s[Len(s)] = ")"
    /\ \E k \in 2..(Len(s) - 2) :
           /\ s[k] = "("
           /\ \A h \in 1..(k - 1) : s[h] \notin {"(", ")"}
           /\ SubSeq(s, 1, k - 1) \notin Modifiers

\* m(x without the closing parenthesis
IsMissingClose(s) ==
    \E m \in Modifiers :
        /\ Len(s) >= Len(m) + 2
        /\ SubSeq(s, 1, Len(m) + 1) = m \o <<"(">>
        /\ s[Len(s)] # ")"

\* m()
IsEmptyParens(s) == \E m \in Modifiers : s = m \o <<"(", ")">>

\* m1(m2(x))
IsNestedWrapper(s) == IsWrapped(s) /\ IsWrapped(InnerOf(s))

\* syntax that fails the modifier pattern
IsUnmatched(s) == IsUnknownWrapper(s) \/ IsMissingClose(s) \/ IsEmptyParens(s)

IsList(x) == DOMAIN x = 1..Len(x)

HasSpacedChevron(s) ==
    \E i \in 2..(Len(s) - 1) : s[i] = ">" /\ s[i - 1] = " " /\ s[i + 1] = " "

\* a string with the marker, or an array with a string element with it
IsQualifyingProperty(v) ==
    \/ v.type = "string" /\ HasSpacedChevron(v.str)
    \/ /\ v.type = "array"
       /\ \E x \in Range(v.items) : x.type = "string" /\ HasSpacedChevron(x.str)

\* in some record the value of k is a plain object with a qualifying property
QualifiesIn(k, recs) ==
    \E e \in TopLevelEntries(recs) :
        /\ e.key = k
        /\ e.value.type = "object"
        /\ \E p \in Range(e.value.props) : IsQualifyingProperty(p.value)

\* C8: detectHierarchicalFacets returns a top-level key exactly when, in at
\* least one record, its value is a non-null, non-array object with a
\* property that is a string containing " > " or an array with a string
\* element containing " > ".
C8_DetectsExactlyQualifying ==
    pc = "detected" =>
        Range(hierarchicalFacets)
            = {k \in TopLevelKeys(records) : QualifiesIn(k, records)}

\* one qualifying property beside a number is enough
C8_Witness ==
    /\ pc = "detected"
    /\ records = << <<Entry(sA, Obj(<<Entry(lvl0, Num),
                                      Entry(lvl1, Str(path))>>))>> >>
    /\ hierarchicalFacets = <<sA>>

\* C9: the names returned for R1 ++ R2 are the union of the names returned
\* for R1 and for R2, and no name is returned twice.
C9_DeduplicatedUnion ==
    pc = "detected" =>
        /\ \A k \in 0..Len(records) :
               Range(hierarchicalFacets)
                   = Range(detectHierarchicalFacets(SubSeq(records, 1, k)))
                     \cup Range(detectHierarchicalFacets(
                                    SubSeq(records, k + 1, Len(records))))
        /\ \A i, j \in 1..Len(hierarchicalFacets) :
               hierarchicalFacets[i] = hierarchicalFacets[j] => i = j

\* "a" qualifies in both records, "b" in the second only
C9_Witness ==
    /\ pc = "detected"
    /\ Len(records) = 2
    /\ QualifiesIn(sA, <<records[1]>>)
    /\ QualifiesIn(sA, <<records[2]>>)
    /\ ~QualifiesIn(sB, <<records[1]>>)
    /\ QualifiesIn(sB, <<records[2]>>)
    /\ hierarchicalFacets = <<sA, sB>>

\* the strings the detector looks at in a nested object
StringsOf(obj) ==
    {p.value.str : p \in {q \in Range(obj.props) : q.value.type = "string"}}
    \cup UNION {{x.str : x \in {y \in Range(p.value.items) : y.type = "string"}} :
                    p \in {q \in Range(obj.props) : q.value.type = "array"}}

\* C10: a key whose objects hold ">" only without a space on both sides
\* is not returned.
C10_UnspacedChevronIgnored ==
    pc = "detected" =>
        \A k \in TopLevelKeys(records) :
            (\A e \in TopLevelEntries(records) :
                 (e.key = k /\ e.value.type = "object") =>
                     \A s \in StringsOf(e.value) : ~HasSpacedChevron(s))
                => k \notin Range(hierarchicalFacets)

\* "5>3" as a string and as an array element
C10_Witness ==
    /\ pc = "detected"
    /\ records = << <<Entry(sA, Obj(<<Entry(lvl0, Str(bare))>>))>>,
                    <<Entry(sA, Obj(<<Entry(lvl0, Arr(<<Str(bare)>>))>>))>> >>
    /\ hierarchicalFacets = <<>>

\* the first qualifying occurrence of k: <<record index, entry index>>
QualifyingPositions(k, recs) ==
    {<<r, e>> \in (1..Len(recs)) \X (1..MaxRecords + 2) :
         /\ e <= Len(recs[r])
         /\ recs[r][e].key = k
         /\ recs[r][e].value.type = "object"
         /\ \E p \in Range(recs[r][e].value.props) : IsQualifyingProperty(p.value)}

PositionBefore(x, y) == x[1] < y[1] \/ (x[1] = y[1] /\ x[2] < y[2])

FirstQualifyingPosition(k, recs) ==
    CHOOSE x \in QualifyingPositions(k, recs) :
        \A y \in QualifyingPositions(k, recs) : x = y \/ PositionBefore(x, y)

\* C11: the names are returned in first-seen order: records in list order,
\* keys in the record's own order, each name at the place of its first
\* qualifying occurrence.
C11_FirstSeenOrder ==
    pc = "detected" =>
        /\ \A i \in 1..Len(hierarchicalFacets) :
               QualifyingPositions(hierarchicalFacets[i], records) # {}
        /\ \A i, j \in 1..Len(hierarchicalFacets) :
               i < j =>
                   PositionBefore(
                       FirstQualifyingPosition(hierarchicalFacets[i], records),
                       FirstQualifyingPosition(hierarchicalFacets[j], records))

\* "b" qualifies in the first record, "a" only in the second, where it
\* comes first in key order
C11_Witness ==
    /\ pc = "detected"
    /\ Len(records) = 2
    /\ Len(records[1]) = 2 /\ Len(records[2]) = 2
    /\ records[1][1].key = sA /\ records[2][1].key = sA
    /\ ~QualifiesIn(sA, <<records[1]>>)
    /\ QualifiesIn(sB, <<records[1]>>)
    /\ QualifiesIn(sA, <<records[2]>>)
    /\ QualifiesIn(sB, <<records[2]>>)
    /\ hierarchicalFacets = <<sB, sA>>

\* C12: a key whose top-level values are null, undefined, scalars or arrays
\* is never returned, even when the array holds strings with " > ", and a
\* qualifying attribute of the same record is still returned.
C12_NonObjectsSkipped ==
    pc = "detected" =>
        /\ \A k \in TopLevelKeys(records) :
               (\A e \in TopLevelEntries(records) :
                    e.key = k => e.value.type # "object")
                   => k \notin Range(hierarchicalFacets)
        /\ \A r \in 1..Len(records) :
               (\E e \in Range(records[r]) : e.value.type # "object") =>
                   \A e \in Range(records[r]) :
                       QualifiesIn(e.key, <<records[r]>>)
                           => e.key \in Range(hierarchicalFacets)

\* null beside a hierarchy, then a top-level array of paths beside one
C12_Witness ==
    /\ pc = "detected"
    /\ Len(records) = 2
    /\ records[1][1] = Entry(sA, Null)
    /\ records[2][1] = Entry(sA, Arr(<<Str(path)>>))
    /\ QualifiesIn(sB, <<records[1]>>)
    /\ hierarchicalFacets = <<sB>>

\* some string element of the array carries the marker
ArrayCarriesMarker(v) ==
    \E i \in 1..Len(v.items) :
        v.items[i].type = "string" /\ HasSpacedChevron(v.items[i].str)

\* C13: of an array-valued property only the string elements are checked:
\* a key whose objects have nothing but arrays without such an element
\* (empty, marker-free, or with the marker only inside a non-string
\* element) is not returned, and an object with such an array still
\* qualifies its key when another property carries the marker.
C13_ArrayElements ==
    pc = "detected" =>
        /\ \A k \in TopLevelKeys(records) :
               (\A e \in TopLevelEntries(records) :
                    (e.key = k /\ e.value.type = "object") =>
                        \A p \in Range(e.value.props) :
                            p.value.type = "array" /\ ~ArrayCarriesMarker(p.value))
                   => k \notin Range(hierarchicalFacets)
        /\ \A e \in TopLevelEntries(records) :
               (/\ e.value.type = "object"
                /\ \E p \in Range(e.value.props) :
                       p.value.type = "array" /\ ~ArrayCarriesMarker(p.value)
                /\ \E p \in Range(e.value.props) :
                       \/ p.value.type = "string" /\ HasSpacedChevron(p.value.str)
                       \/ p.value.type = "array" /\ ArrayCarriesMarker(p.value))
                   => e.key \in Range(hierarchicalFacets)

\* an empty array beside an array with a path, then a path hidden in an
\* array inside the array
C13_Witness ==
    /\ pc = "detected"
    /\ records = << <<Entry(sA, Obj(<<Entry(lvl0, Arr(<<>>)),
                                      Entry(lvl1, Arr(<<Str(path)>>))>>))>>,
                    <<Entry(sA, Obj(<<Entry(lvl0,
                                      Arr(<<Arr(<<Str(path)>>)>>))>>))>> >>
    /\ hierarchicalFacets = <<sA>>

\* C14: a call leaves its arguments as they were: the suggestion list and
\* the sample records, nested values included, are the same after
\* validateAttributes and after detectHierarchicalFacets.
C14_ArgumentsUnchanged ==
    [][pc = "ready" =>
           /\ attributes' = attributes
           /\ suggested' = suggested
           /\ records' = records]_vars

\* a call that dropped an entry and left the two-entry argument as given
C14_Witness ==
    /\ pc = "validated"
    /\ Len(attributes) = 2
    /\ attributes = suggested
    /\ Len(validAttributes) = 1
    /\ records # <<>>

\* the note about filtered suggestions, when the reasoning carries one
FilteredNotes == {x \in Range(reasoning) : x.kind = "filtered"}

\* N: the LLM suggestions minus the entries the validator returned
FilteredOut ==
    Len(suggested) - Len(validateAttributes(revision, suggested, sampleRecords))

\* C16 as stated: every validating generator returns the validated list as
\* its configuration value, and the note is there exactly when N > 0.
C16_ReturnsValidatedList ==
    pc = "generated" =>
        /\ config = validateAttributes(revision, suggested, sampleRecords)
        /\ (FilteredNotes # {}) <=> (FilteredOut > 0)

\* C16: the searchable and the ranking generator return the validated list,
\* the faceting generator returns the detected hierarchical facets followed
\* by the validated list; the reasoning starts with the LLM's, and carries
\* the note, with N in it and as its last sentence, exactly when N > 0.
C16_ValidatedListAndNote ==
    pc = "generated" =>
        /\ generator \in {"searchableAttributes", "customRanking"} =>
               config = validateAttributes(revision, suggested, sampleRecords)
        /\ generator = "attributesForFaceting" =>
               config = detectHierarchicalFacets(sampleRecords)
                            \o validateAttributes(revision, suggested, sampleRecords)
        /\ reasoning[1] = llmReasoning
        /\ (FilteredNotes # {}) <=> (FilteredOut > 0)
        /\ FilteredOut > 0 =>
               reasoning[Len(reasoning)] = filteredNote(FilteredOut)
        /\ FilteredOut <= 0 =>
               reasoning \in {<<llmReasoning>>,
                              <<llmReasoning, hierarchicalClause(hierarchicalFacets)>>}

\* the faceting generator with a hierarchy detected and a suggestion dropped
C16_Witness ==
    /\ pc = "generated"
    /\ generator = "attributesForFaceting"
    /\ hierarchicalFacets = <<sA>>
    /\ Len(suggested) = 2
    /\ Len(validAttributes) = 1
    /\ config = <<sA>> \o validAttributes
    /\ reasoning = <<llmReasoning, hierarchicalClause(<<sA>>), filteredNote(1)>>

(***************************************************************************)
(* Interactive mode properties                                             *)
(***************************************************************************)
\* s reads asc(x) or desc(x) with x not empty
IsSortFormat(s) ==
    \E d \in {asc, desc} :
        Len(s) >= Len(d) + 3 /\ s = Wrap(d, SubSeq(s, Len(d) + 2, Len(s) - 1))

\* the replica asc(x) or desc(x) asks for: index_x_direction
ReplicaFor(s) ==
    LET d == CHOOSE e \in {asc, desc} : SubSeq(s, 1, Len(e) + 1) = e \o <<"(">>
    IN  indexName \o <<"_">> \o SubSeq(s, Len(d) + 2, Len(s) - 1) \o <<"_">> \o d

\* the entries of the sortable section
SortableEntries ==
    UNION {Range(sections[k].config) :
               k \in {j \in 1..Len(sections) :
                          sections[j].type = "sortableAttributes"}}

\* the setSettings calls a step issues
NewWrites == SubSeq(writes', Len(writes) + 1, Len(writes'))

\* C17: when the sortable section is applied, a replica is configured only
\* after the write of the main index's replicas setting that names it went
\* through, every new replica of that write is then configured, and its
\* ranking is the sort attribute followed by typo, geo, words, filters,
\* proximity, attribute, exact, custom.
C17_MainBeforeReplicas ==
    [][/\ \A i \in 1..Len(NewWrites) :
              NewWrites[i].indexName # indexName =>
                  /\ i > 1
                  /\ NewWrites[1].indexName = indexName
                  /\ NewWrites[1].setting = "replicas"
                  /\ NewWrites[1].ok
                  /\ NewWrites[i].indexName \in Range(NewWrites[1].value)
                  /\ NewWrites[i].indexName \notin Range(indexReplicas)
                  /\ NewWrites[i].setting = "ranking"
                  /\ Len(NewWrites[i].value) = 9
                  /\ NewWrites[i].value[1] \in SortableEntries
                  /\ IsSortFormat(NewWrites[i].value[1])
                  /\ ReplicaFor(NewWrites[i].value[1]) = NewWrites[i].indexName
                  /\ SubSeq(NewWrites[i].value, 2, 9) = defaultRanking
       /\ (/\ Len(NewWrites) > 0
           /\ NewWrites[1].setting = "replicas"
           /\ NewWrites[1].ok)
              => \A n \in Range(NewWrites[1].value) \ Range(indexReplicas) :
                     \E i \in 2..Len(NewWrites) : NewWrites[i].indexName = n
      ]_vars

\* two new replicas beside an old one: the main index first, then each replica
C17_Witness ==
    /\ step = "done"
    /\ Len(writes) = 3
    /\ writes[1] = setSettings(indexName, "replicas",
                               << <<"o">>, ReplicaFor(Wrap(desc, sP)),
                                  ReplicaFor(Wrap(asc, sP)) >>, TRUE)
    /\ writes[2].indexName = ReplicaFor(Wrap(desc, sP))
    /\ writes[2].value[1] = Wrap(desc, sP)
    /\ writes[3].indexName = ReplicaFor(Wrap(asc, sP))
    /\ writes[3].value[1] = Wrap(asc, sP)

\* C18: the replicas list written to the main index holds every name at
\* most once.
C18_NoDuplicateReplica ==
    \A w \in Range(writes) :
        w.setting = "replicas" =>
            \A i, j \in 1..Len(w.value) : i # j => w.value[i] # w.value[j]

\* C19: applying the sortable section keeps what is there: the replicas the
\* index lists stay listed, in the written list and in the index; no
\* setSettings is addressed to a replica the index listed before; and when
\* every entry is of invalid format or names a replica that is listed,
\* nothing is written.
C19_ExistingPreserved ==
    [][/\ Range(indexReplicas) \subseteq Range(indexReplicas')
       /\ \A i \in 1..Len(NewWrites) :
              /\ NewWrites[i].indexName \notin Range(indexReplicas)
              /\ NewWrites[i].setting = "replicas" =>
                     SubSeq(NewWrites[i].value, 1, Len(indexReplicas))
                         = indexReplicas
       /\ (/\ step = "applying"
           /\ sections[sectionsToApply[sectionCursor]].type = "sortableAttributes"
           /\ \A x \in SortableEntries :
                  ~IsSortFormat(x) \/ ReplicaFor(x) \in Range(indexReplicas))
              => writes' = writes
      ]_vars

\* one entry names a listed replica, the other a new one: the list grows
\* by the new name and only the new replica is configured
C19_Witness ==
    /\ step = "done"
    /\ SortableEntries = {Wrap(desc, sP), Wrap(asc, sP)}
    /\ indexReplicas = << ReplicaFor(Wrap(desc, sP)), <<"o">>,
                          ReplicaFor(Wrap(asc, sP)) >>
    /\ Len(writes) = 2
    /\ writes[1].setting = "replicas"
    /\ writes[1].value = indexReplicas
    /\ writes[2].indexName = ReplicaFor(Wrap(asc, sP))

\* the section a setSettings call belongs to
SectionTypeOf(w) ==
    IF w.setting \in {"replicas", "ranking"} THEN "sortableAttributes" ELSE w.setting

\* C20: a setSettings call is issued only after a yes to the first prompt, a
\* selection of at least one section, the preview of that selection and a
\* yes to the final confirmation, and only for a selected section.
C20_WritesOnlyAfterConsent ==
    /\ writes # <<>> =>
           /\ prompts.proceedWithAny = "yes"
           /\ sectionsToApply # <<>>
           /\ prompts.preview = sectionsToApply
           /\ prompts.confirmApply = "yes"
           /\ \A w \in Range(writes) :
                  \E k \in Range(sectionsToApply) :
                      sections[k].type = SectionTypeOf(w)
    /\ step = "applying" => prompts.confirmApply = "yes"

\* of two sections only the second was ticked, and only it was written
C20_Witness ==
    /\ step = "done"
    /\ Len(sections) = 2
    /\ sections[1].type = "searchableAttributes"
    /\ sectionsToApply = <<2>>
    /\ prompts.confirmApply = "yes"
    /\ Len(writes) = 2
    /\ \A w \in Range(writes) : SectionTypeOf(w) = "sortableAttributes"

\* the positions promptApplyConfiguration can be at; none of them is an
\* exception leaving the function
Steps == {"proceedWithAny", "sectionsToApply", "confirmApply", "applying", "done"}

\* C21: a failure does not stop the rest.  Whatever a step of the loop over
\* the selected sections wrote and whether it was rejected, the loop moves
\* to the next selected section and a section that is one index setting is
\* written; once the replicas write went through, every new replica gets
\* its setSettings call, in order, whether earlier ones were rejected or
\* not; and the function ends at its last line with the loop run through.
C21_FailureDoesNotStopTheRest ==
    [][/\ step' \in Steps
       /\ step = "applying" =>
              /\ sectionCursor <= Len(sectionsToApply)
              /\ sectionCursor' = sectionCursor + 1
              /\ step' = "done" <=> sectionCursor = Len(sectionsToApply)
              /\ sections[sectionsToApply[sectionCursor]].type # "sortableAttributes"
                     => /\ Len(NewWrites) = 1
                        /\ NewWrites[1].indexName = indexName
                        /\ NewWrites[1].setting
                               = sections[sectionsToApply[sectionCursor]].type
       /\ (/\ Len(NewWrites) > 0
           /\ NewWrites[1].setting = "replicas"
           /\ NewWrites[1].ok)
              => /\ Len(NewWrites) = 1 + Len(NewWrites[1].value) - Len(indexReplicas)
                 /\ \A i \in 2..Len(NewWrites) :
                        NewWrites[i].indexName
                            = NewWrites[1].value[Len(indexReplicas) + i - 1]
      ]_vars

\* the first section was rejected and the second still applied; its first
\* replica was rejected and the second still configured
C21_Witness ==
    /\ step = "done"
    /\ sectionsToApply = <<1, 2>>
    /\ Len(writes) = 4
    /\ writes[1].setting = "searchableAttributes" /\ ~writes[1].ok
    /\ writes[2].setting = "replicas" /\ writes[2].ok
    /\ writes[3].setting = "ranking" /\ ~writes[3].ok
    /\ writes[4].setting = "ranking"
    /\ writes[4].indexName # writes[3].indexName

(***************************************************************************)
(* Relations between calls                                                 *)
(***************************************************************************)
\* C26: adding records never invalidates a suggestion: what the validator
\* returns for a non-empty list R is a subsequence of what it returns for
\* R followed by more records.
C26_MoreRecordsKeepSuggestions ==
    pc = "validated" =>
        \A k \in 1..Len(records) :
            IsSubsequence(
                validateAttributes(revision, attributes, SubSeq(records, 1, k)),
                validAttributes)

\* the first record alone validates one of two suggestions, both records
\* validate the two
C26_Witness ==
    /\ pc = "validated"
    /\ revision = "filter"
    /\ Len(records) = 2
    /\ Len(validateAttributes(revision, attributes, SubSeq(records, 1, 1))) = 1
    /\ Len(validAttributes) = 2

\* C27: the detector looks one level into a top-level object: every name
\* returned is a top-level key, none is a parent.child path, and a key
\* whose objects have no string and no array among their own properties
\* (the marker sitting deeper, inside a nested object) is not returned.
C27_OneLevelOfNesting ==
    pc = "detected" =>
        /\ Range(hierarchicalFacets) \subseteq TopLevelKeys(records)
        /\ \A n \in Range(hierarchicalFacets) : n \notin ParentChildPaths(records)
        /\ \A k \in TopLevelKeys(records) :
               (\A e \in TopLevelEntries(records) :
                    (e.key = k /\ e.value.type = "object") =>
                        \A p \in Range(e.value.props) :
                            p.value.type \notin {"string", "array"})
                   => k \notin Range(hierarchicalFacets)

\* a path two levels under "a", a path one level under "b"
C27_Witness ==
    /\ pc = "detected"
    /\ records = << <<Entry(sA, Obj(<<Entry(lvl0,
                                   Obj(<<Entry(lvl0, Str(path))>>))>>))>>,
                    <<Entry(sB, Obj(<<Entry(lvl0, Str(plain)),
                                      Entry(lvl1, Str(path))>>))>> >>
    /\ hierarchicalFacets = <<sB>>

(***************************************************************************)
(* Generator properties                                                    *)
(***************************************************************************)
\* the first `limit` records
FirstRecords == SubSeq(records, 1, IF limit < Len(records) THEN limit ELSE Len(records))

\* C23: a generator validates against the first `limit` records, the ones
\* its prompt is built from: what it returns is the validation against
\* those, a bare name that is no key of them is rejected though a later
\* record has it, and a hierarchical facet is detected from them only.
C23_ValidatesAgainstTheSlice ==
    pc = "generated" =>
        /\ validAttributes = validateAttributes(revision, suggested, FirstRecords)
        /\ \A x \in Range(suggested) :
               (IsBareName(x) /\ x \notin ExpectedNames(FirstRecords))
                   => x \notin Range(validAttributes)
        /\ \A k \in Range(hierarchicalFacets) : QualifiesIn(k, FirstRecords)
        /\ generator = "attributesForFaceting" =>
               \A k \in TopLevelKeys(FirstRecords) :
                   QualifiesIn(k, FirstRecords) => k \in Range(hierarchicalFacets)
        /\ Len(prompt) = Len(FirstRecords)
        /\ \A i \in 1..Len(prompt) : IsSubsequence(prompt[i], FirstRecords[i])
        /\ generator # "attributesForFaceting" => prompt = FirstRecords

\* with limit 1 the key "b" and the hierarchy of "a" of the second record
\* are not seen
C23_Witness ==
    /\ pc = "generated"
    /\ generator = "attributesForFaceting"
    /\ limit = 1
    /\ records = << <<Entry(sB, Str(plain))>>,
                    <<Entry(sA, Obj(<<Entry(lvl1, Str(path))>>))>> >>
    /\ suggested = <<sA, sB>>
    /\ validAttributes = <<sB>>
    /\ hierarchicalFacets = <<>>

\* the expression a suggestion is validated by
BaseOf(x) == IF IsWrapped(x) THEN InnerOf(x) ELSE x

\* what the faceting generator is to return and to show to the LLM
FacetingResultAsClaimed ==
    LET h == Len(hierarchicalFacets)
    IN  /\ hierarchicalFacets = detectHierarchicalFacets(FirstRecords)
        /\ Len(config) >= h
        /\ SubSeq(config, 1, h) = hierarchicalFacets
        /\ SubSeq(config, h + 1, Len(config))
               = validateAttributes(revision, suggested, FirstRecords)
        /\ \A i \in (h + 1)..Len(config) :
               /\ config[i] \in Range(suggested)
               /\ ExpressionValid(BaseOf(config[i]), FirstRecords)
        /\ Len(prompt) = Len(FirstRecords)
        /\ \A i \in 1..Len(prompt) :
               /\ \A e \in Range(prompt[i]) : e.key \notin Range(hierarchicalFacets)
               /\ prompt[i] = SelectSeq(FirstRecords[i],
                                        LAMBDA e : ~QualifiesIn(e.key, FirstRecords))

\* C24: the faceting generator returns the detected hierarchical facets, in
\* detection order, followed by the validated list, every entry after the
\* prefix is an LLM suggestion that is valid, and the records of the prompt
\* are the sample without the detected attributes.
C24_PrefixThenValidatedSuggestions ==
    (pc = "generated" /\ generator = "attributesForFaceting")
        => FacetingResultAsClaimed

\* with the revision that filters the suggestion list the same holds
C24_FilterRevisionFaceting ==
    (pc = "generated" /\ generator = "attributesForFaceting" /\ revision = "filter")
        => FacetingResultAsClaimed

\* C25: with the LLM call failing no generator raises, whatever the record
\* list, the empty one included, and the fallback list of the ranking, the
\* sorting and the faceting generator has at most three entries, after the
\* detected hierarchical facets for faceting.
C25_FallbackInsteadOfRaising ==
    /\ pc # "raised"
    /\ (pc = "fellBack" /\ generator \in {"customRanking", "sortableAttributes"})
           => Len(config) <= 3
    /\ (pc = "fellBack" /\ generator = "attributesForFaceting")
           => /\ Len(config) <= Len(hierarchicalFacets) + 3
              /\ SubSeq(config, 1, Len(hierarchicalFacets)) = hierarchicalFacets

\* with a first record every generator falls back, within the three entries
C25_NonEmptySampleFallsBack ==
    /\ (pc = "raised") => (generator = "customRanking" /\ FirstRecords = <<>>)
    /\ (pc = "fellBack" /\ generator \in {"customRanking", "sortableAttributes"})
           => Len(config) <= 3
    /\ (pc = "fellBack" /\ generator = "attributesForFaceting")
           => /\ Len(config) <= Len(hierarchicalFacets) + 3
              /\ SubSeq(config, 1, Len(hierarchicalFacets)) = hierarchicalFacets


\* whether the flags given ask for a configuration type
Wanted(type) == options = {} \/ type \in options

\* C22: with no flag given all four configurations are generated; with at
\* least one flag given exactly the flagged ones are: in every
\* generateConfigurations call a generator is called if and only if its
\* configuration is wanted, and the value returned holds null for exactly
\* the configurations that are not wanted.
C22_SelectiveGeneration ==
    \A i \in DOMAIN promises : \A type \in TypeSet :
        /\ promises[i][type] = "resolvedNull" <=> ~Wanted(type)
        /\ configurations[i].state = "fulfilled" =>
               /\ configurations[i].value[type] = "null" <=> ~Wanted(type)
               /\ configurations[i].value[type] = "generated" <=> Wanted(type)

\* a call made with only --ranking has returned the custom ranking and null
\* for the three others, and none of their generators was called
C22_Witness ==
    /\ options = {"ranking"}
    /\ Len(configurations) = 1
    /\ configurations[1].state = "fulfilled"
    /\ configurations[1].value["ranking"] = "generated"
    /\ \A type \in TypeSet \ {"ranking"} :
          /\ configurations[1].value[type] = "null"
          /\ promises[1][type] = "resolvedNull"

TokenFields == {"promptTokens", "completionTokens", "totalTokens"}

\* the tokens of one field over a list of addCliUsage calls
RECURSIVE TokensOf(_, _)
TokensOf(calls, field) ==
    IF calls = <<>> THEN 0
    ELSE calls[Len(calls)].usage[field]
             + TokensOf(SubSeq(calls, 1, Len(calls) - 1), field)

\* the tokens of one field over the models of a costsByModel value
RECURSIVE TokensOverModels(_, _, _)
TokensOverModels(byModel, names, field) ==
    IF names = {} THEN 0
    ELSE LET name == CHOOSE n \in names : TRUE
         IN  byModel[name].usage[field]
                 + TokensOverModels(byModel, names \ {name}, field)

CallsOf(name) == SelectSeq(usageCalls, LAMBDA call : call.modelName = name)

====
